---- MODULE Spec2Model ----
(***************************************************************************)
(* Model of nus (Node Update Script): the version resolver of              *)
(* updater.js (findVersionType, versionInfoToAllowedVersions,              *)
(* findWantedVersion, updatePackage, updater) and the interactive          *)
(* selector of select.js.                                                  *)
(*                                                                         *)
(* Strings are sequences of characters; a character is a one-character     *)
(* TLA+ string, or a symbolic name for a control character ("ETX" is       *)
(* Ctrl-C, "CR" and "LF" are Enter, "ETB" is Ctrl-Backspace, "ESC" is      *)
(* escape, "DEL" is Backspace).                                            *)
(***************************************************************************)
EXTENDS Integers, Sequences, FiniteSets, TLC

(***************************************************************************)
(* JavaScript values                                                       *)
(***************************************************************************)

\* null / undefined where a string is expected; no string equals it
NULL == <<"NULL">>

\* a release time that is null, absent or empty in the registry's time map
NoTime == -1

\* UTF-16 code units of the characters that occur, as JavaScript compares strings
CodeTable ==
    ("ETX" :> 3) @@ ("LF" :> 10) @@ ("CR" :> 13) @@ ("ETB" :> 23) @@ ("ESC" :> 27) @@ (" " :> 32) @@
    ("!" :> 33) @@ ("#" :> 35) @@ ("*" :> 42) @@ ("-" :> 45) @@ ("." :> 46) @@
    ("/" :> 47) @@ ("0" :> 48) @@ ("1" :> 49) @@ ("2" :> 50) @@ ("3" :> 51) @@
    ("4" :> 52) @@ ("5" :> 53) @@ ("6" :> 54) @@ ("7" :> 55) @@ ("8" :> 56) @@
    ("9" :> 57) @@ (":" :> 58) @@ ("<" :> 60) @@ ("=" :> 61) @@ (">" :> 62) @@
    ("@" :> 64) @@ ("A" :> 65) @@ ("B" :> 66) @@ ("C" :> 67) @@ ("D" :> 68) @@
    ("X" :> 88) @@ ("[" :> 91) @@ ("^" :> 94) @@ ("a" :> 97) @@ ("b" :> 98) @@
    ("c" :> 99) @@ ("d" :> 100) @@ ("e" :> 101) @@ ("f" :> 102) @@ ("g" :> 103) @@
    ("h" :> 104) @@ ("i" :> 105) @@ ("l" :> 108) @@ ("m" :> 109) @@ ("n" :> 110) @@
    ("o" :> 111) @@ ("p" :> 112) @@ ("r" :> 114) @@ ("s" :> 115) @@ ("t" :> 116) @@
    ("u" :> 117) @@ ("x" :> 120) @@ ("~" :> 126) @@ ("DEL" :> 127)

\* String.prototype.toLowerCase on one character
ToLower(c) ==
    CASE c = "A" -> "a" [] c = "B" -> "b" [] c = "C" -> "c" [] c = "D" -> "d"
      [] c = "X" -> "x" [] OTHER -> c

\* a < b for JavaScript strings: lexicographic on code units
RECURSIVE StrLess(_, _)
StrLess(a, b) ==
    IF b = <<>> THEN FALSE
    ELSE IF a = <<>> THEN TRUE
    ELSE IF a[1] # b[1] THEN CodeTable[a[1]] < CodeTable[b[1]]
    ELSE StrLess(Tail(a), Tail(b))

\* Array.prototype.includes / String.prototype.includes(one character)
Includes(seq, x) == \E i \in 1..Len(seq) : seq[i] = x

\* Array.prototype.indexOf, 1-based; 0 when absent (JavaScript's -1)
IndexOf(seq, x) ==
    IF Includes(seq, x)
    THEN CHOOSE i \in 1..Len(seq) : seq[i] = x /\ \A j \in 1..(i - 1) : seq[j] # x
    ELSE 0

\* String.prototype.startsWith
StartsWith(s, p) == Len(s) >= Len(p) /\ SubSeq(s, 1, Len(p)) = p

\* String.prototype.split on a one-character separator
RECURSIVE Split(_, _)
Split(s, c) ==
    LET i == IndexOf(s, c)
    IN  IF i = 0 THEN <<s>>
        ELSE <<SubSeq(s, 1, i - 1)>> \o Split(SubSeq(s, i + 1, Len(s)), c)

\* Array.prototype.join with a one-character separator
RECURSIVE Join(_, _)
Join(parts, c) ==
    IF parts = <<>> THEN <<>>
    ELSE IF Len(parts) = 1 THEN parts[1]
    ELSE parts[1] \o <<c>> \o Join(Tail(parts), c)

(***************************************************************************)
(* The semver package (node-semver), as far as updater.js uses it:         *)
(* lt(a, b) and maxSatisfying(versions, range).  Versions are              *)
(* MAJOR.MINOR.PATCH with an optional -prerelease; the model's strings     *)
(* hold no build metadata ("+") and no surrounding blanks.  Ranges are a   *)
(* single comparator set: a version, a partial version, "<=" or "^" in     *)
(* front of one; anything else is an invalid range.                        *)
(***************************************************************************)

IsDigit(c) == c \in {"0", "1", "2", "3", "4", "5", "6", "7", "8", "9"}

\* the code units of A-Z and a-z
IsLetterCode(k) == (k >= 65 /\ k <= 90) \/ (k >= 97 /\ k <= 122)

\* [0-9A-Za-z-]
IsAlnum(c) == IsDigit(c) \/ c = "-" \/ IsLetterCode(CodeTable[c])

AllDigits(s) == Len(s) > 0 /\ \A i \in 1..Len(s) : IsDigit(s[i])

\* NUMERICIDENTIFIER: 0|[1-9]\d*
IsNumericId(s) == AllDigits(s) /\ (Len(s) > 1 => s[1] # "0")

\* PRERELEASEIDENTIFIER: a numeric identifier or [0-9A-Za-z-]+ with a non-digit
IsPreId(s) ==
    /\ Len(s) > 0
    /\ \A i \in 1..Len(s) : IsAlnum(s[i])
    /\ (AllDigits(s) => IsNumericId(s))

RECURSIVE ToNum(_)
ToNum(s) ==
    IF s = <<>> THEN 0
    ELSE 10 * ToNum(SubSeq(s, 1, Len(s) - 1)) + (CodeTable[s[Len(s)]] - 48)

InvalidSemVer == [valid |-> FALSE, major |-> 0, minor |-> 0, patch |-> 0, pre |-> <<>>]

\* the text before the first "-" of t, split on "."
MainParts(t) == Split(SubSeq(t, 1, (IF Includes(t, "-") THEN IndexOf(t, "-") ELSE Len(t) + 1) - 1), ".")

\* the text after the first "-" of t, split on "."; <<>> without a "-"
PreParts(t) == IF Includes(t, "-") THEN Split(SubSeq(t, IndexOf(t, "-") + 1, Len(t)), ".") ELSE <<>>

\* the version of MAJOR.MINOR.PATCH parts and prerelease identifiers, if well-formed
SemVerOf(s, parts, pre) ==
    IF /\ s # NULL
       /\ Len(parts) = 3
       /\ \A i \in 1..3 : IsNumericId(parts[i])
       /\ \A j \in 1..Len(pre) : IsPreId(pre[j])
    THEN [valid |-> TRUE,
          major |-> ToNum(parts[1]), minor |-> ToNum(parts[2]),
          patch |-> ToNum(parts[3]), pre |-> pre]
    ELSE InvalidSemVer

\* s without the leading "v" the patterns allow
StripV(s) == IF Len(s) > 0 /\ s[1] = "v" THEN Tail(s) ELSE s

\* new SemVer(s): the FULL pattern v?MAJOR.MINOR.PATCH(-PRERELEASE)?
ParseSemVer(s) == SemVerOf(s, MainParts(StripV(s)), PreParts(StripV(s)))

ValidSemVer(s) == ParseSemVer(s).valid

\* compareIdentifiers of semver/internal/identifiers.js
CompareNumbers(x, y) == IF x = y THEN 0 ELSE IF x < y THEN -1 ELSE 1

CompareIdentifiers(a, b) ==
    IF AllDigits(a) /\ AllDigits(b)
    THEN CompareNumbers(ToNum(a), ToNum(b))
    ELSE IF a = b THEN 0
    ELSE IF AllDigits(a) THEN -1
    ELSE IF AllDigits(b) THEN 1
    ELSE IF StrLess(a, b) THEN -1 ELSE 1

\* SemVer.comparePre
RECURSIVE ComparePreFrom(_, _, _)
ComparePreFrom(p, q, i) ==
    IF i > Len(p) /\ i > Len(q) THEN 0
    ELSE IF i > Len(q) THEN 1
    ELSE IF i > Len(p) THEN -1
    ELSE IF CompareIdentifiers(p[i], q[i]) # 0 THEN CompareIdentifiers(p[i], q[i])
    ELSE ComparePreFrom(p, q, i + 1)

ComparePre(a, b) ==
    IF a.pre # <<>> /\ b.pre = <<>> THEN -1
    ELSE IF a.pre = <<>> /\ b.pre # <<>> THEN 1
    ELSE IF a.pre = <<>> /\ b.pre = <<>> THEN 0
    ELSE ComparePreFrom(a.pre, b.pre, 1)

\* SemVer.compare on two parsed versions: -1, 0 or 1
CompareSemVer(a, b) ==
    IF a.major # b.major THEN (IF a.major < b.major THEN -1 ELSE 1)
    ELSE IF a.minor # b.minor THEN (IF a.minor < b.minor THEN -1 ELSE 1)
    ELSE IF a.patch # b.patch THEN (IF a.patch < b.patch THEN -1 ELSE 1)
    ELSE ComparePre(a, b)

\* lt(a, b) throws a TypeError when either string is not a version
LtThrows(a, b) == ~ValidSemVer(a) \/ ~ValidSemVer(b)

\* lt(a, b) when it does not throw
Lt(a, b) == CompareSemVer(ParseSemVer(a), ParseSemVer(b)) < 0

SV(ma, mi, pa, pre) == [valid |-> TRUE, major |-> ma, minor |-> mi, patch |-> pa, pre |-> pre]

Comparator(op, sv) == [op |-> op, sv |-> sv]

\* the "-0" prerelease that bounds a caret or partial range from above
PreZero == <<(<<"0">>)>>

\* a partial version of one to three numeric parts and prerelease identifiers that
\* follow the third
PartialOk(s, parts, pre) ==
    /\ s # NULL
    /\ Len(parts) \in 1..3
    /\ \A i \in 1..Len(parts) : IsNumericId(parts[i])
    /\ (Includes(s, "-") => Len(parts) = 3)
    /\ \A j \in 1..Len(pre) : IsPreId(pre[j])

PartialFrom(ok, parts, pre) ==
    [n |-> IF ok THEN Len(parts) ELSE 0,
     major |-> IF ok THEN ToNum(parts[1]) ELSE 0,
     minor |-> IF ok /\ Len(parts) >= 2 THEN ToNum(parts[2]) ELSE 0,
     patch |-> IF ok /\ Len(parts) = 3 THEN ToNum(parts[3]) ELSE 0,
     pre |-> IF ok THEN pre ELSE <<>>]

\* a partial version M, M.m or M.m.p(-pre): the number of parts given, 0 if malformed
PartialOf(s) == PartialFrom(PartialOk(s, MainParts(s), PreParts(s)), MainParts(s), PreParts(s))

\* replaceXRanges on "<=" and a partial version p
LessEqRange(p) ==
    CASE p.n = 3 -> <<Comparator("<=", SV(p.major, p.minor, p.patch, p.pre))>>
      [] p.n = 2 -> <<Comparator("<", SV(p.major, p.minor + 1, 0, PreZero))>>
      [] p.n = 1 -> <<Comparator("<", SV(p.major + 1, 0, 0, PreZero))>>
      [] OTHER -> <<>>

\* the upper bound replaceCarets gives the partial version p
CaretBelow(p) ==
    CASE p.n = 1 -> Comparator("<", SV(p.major + 1, 0, 0, PreZero))
      [] p.n = 2 /\ p.major = 0 -> Comparator("<", SV(0, p.minor + 1, 0, PreZero))
      [] p.n = 3 /\ p.major = 0 /\ p.minor = 0 ->
            Comparator("<", SV(0, 0, p.patch + 1, PreZero))
      [] p.n = 3 /\ p.major = 0 -> Comparator("<", SV(0, p.minor + 1, 0, PreZero))
      [] OTHER -> Comparator("<", SV(p.major + 1, 0, 0, PreZero))

\* replaceCarets on "^" and a partial version p
CaretRange(p) ==
    IF p.n = 0 THEN <<>>
    ELSE <<Comparator(">=", SV(p.major, p.minor, p.patch, p.pre)), CaretBelow(p)>>

\* replaceXRanges on a partial version p without operator
PlainRange(p) ==
    CASE p.n = 3 -> <<Comparator("=", SV(p.major, p.minor, p.patch, p.pre))>>
      [] p.n = 2 -> <<Comparator(">=", SV(p.major, p.minor, 0, <<>>)),
                      Comparator("<", SV(p.major, p.minor + 1, 0, PreZero))>>
      [] p.n = 1 -> <<Comparator(">=", SV(p.major, 0, 0, <<>>)),
                      Comparator("<", SV(p.major + 1, 0, 0, PreZero))>>
      [] OTHER -> <<>>

\* new Range(range): the comparators of the range, <<>> when the range is invalid
ParseRange(r) ==
    IF r = NULL \/ r = <<>> THEN <<>>
    ELSE IF StartsWith(r, <<"<", "=">>) THEN LessEqRange(PartialOf(SubSeq(r, 3, Len(r))))
    ELSE IF r[1] = "^" THEN CaretRange(PartialOf(Tail(r)))
    ELSE PlainRange(PartialOf(StripV(r)))

\* Comparator.test
OpHolds(op, k) ==
    CASE op = "<=" -> k <= 0
      [] op = "<" -> k < 0
      [] op = ">=" -> k >= 0
      [] OTHER -> k = 0

ComparatorTest(c, v) == OpHolds(c.op, CompareSemVer(v, c.sv))

\* Range.test (testSet without includePrerelease): a prerelease version only
\* satisfies a set in which a comparator names a prerelease of the same tuple
TestSet(cs, v) ==
    /\ v.valid
    /\ cs # <<>>
    /\ \A i \in 1..Len(cs) : ComparatorTest(cs[i], v)
    /\ (v.pre # <<>> =>
          \E i \in 1..Len(cs) :
              /\ cs[i].sv.pre # <<>>
              /\ cs[i].sv.major = v.major
              /\ cs[i].sv.minor = v.minor
              /\ cs[i].sv.patch = v.patch)

Satisfies(version, range) == TestSet(ParseRange(range), ParseSemVer(version))

\* maxSatisfying(versions, range): the first of the highest satisfying versions,
\* NULL when none satisfies or the range is invalid
RECURSIVE MaxSatisfyingFrom(_, _, _, _)
MaxSatisfyingFrom(versions, range, i, max) ==
    IF i > Len(versions) THEN max
    ELSE IF /\ Satisfies(versions[i], range)
            /\ (max = NULL
                \/ CompareSemVer(ParseSemVer(max), ParseSemVer(versions[i])) = -1)
         THEN MaxSatisfyingFrom(versions, range, i + 1, versions[i])
         ELSE MaxSatisfyingFrom(versions, range, i + 1, max)

MaxSatisfying(versions, range) == MaxSatisfyingFrom(versions, range, 1, NULL)

(***************************************************************************)
(* String constants of the program and of the modelled inputs              *)
(***************************************************************************)

sLatest == <<"l", "a", "t", "e", "s", "t">>
sNpmColon == <<"n", "p", "m", ":">>
sHttp == <<"h", "t", "t", "p", ":">>
sHttps == <<"h", "t", "t", "p", "s", ":">>
sFile == <<"f", "i", "l", "e", ":">>
sModified == <<"m", "o", "d", "i", "f", "i", "e", "d">>
sCreated == <<"c", "r", "e", "a", "t", "e", "d">>

\* a JavaScript value used as a condition: null, undefined and "" are falsy
Truthy(s) == s # NULL /\ s # <<>>

\* obj[key] on an object modelled as a function; undefined when the key is absent
Get(obj, key) == IF key \in DOMAIN obj THEN obj[key] ELSE NULL

\* the keys of a release-time map, in the registry's order
Keys(releaseTimes) == [i \in 1..Len(releaseTimes) |-> releaseTimes[i].k]

\* releaseTimes[v]
TimeOf(releaseTimes, v) ==
    IF \E i \in 1..Len(releaseTimes) : releaseTimes[i].k = v
    THEN releaseTimes[CHOOSE i \in 1..Len(releaseTimes) : releaseTimes[i].k = v].t
    ELSE NoTime

\* milliseconds per minute, the factor 1000 * 60 applied to config.minAge
MsPerMinute == 60000

(***************************************************************************)
(* updater.js                                                              *)
(***************************************************************************)

findByRange_NoExactMatch(versions, range) == MaxSatisfying(versions, range)

\* findByRange: direct version match first, then the highest in the range
findByRange(versions, range) ==
    IF Includes(versions, range) THEN range ELSE MaxSatisfying(versions, range)

\* version.replace(/^npm:/, "").split("@").slice(0, -1).join("@")
AliasTarget(version) ==
    LET stripped == IF StartsWith(version, sNpmColon)
                    THEN SubSeq(version, Len(sNpmColon) + 1, Len(version))
                    ELSE version
        parts == Split(stripped, "@")
    IN  Join(SubSeq(parts, 1, Len(parts) - 1), "@")

findVersionType_NoSchemes(name, version) ==
    [alias |-> IF StartsWith(version, sNpmColon) THEN AliasTarget(version) ELSE NULL,
     verType |->
        IF (Includes(name, "/") \/ Includes(version, "/")) /\ ~StartsWith(name, <<"@">>)
        THEN "git"
        ELSE IF StartsWith(version, sNpmColon) THEN "alias" ELSE "semver"]

\* findVersionType: {alias, verType}
findVersionType(name, version) ==
    LET isAlias == StartsWith(version, sNpmColon)
        hasSlashes == Includes(name, "/") \/ Includes(version, "/")
    IN  [alias |-> IF isAlias THEN AliasTarget(version) ELSE NULL,
         verType |->
            IF hasSlashes /\ ~StartsWith(name, <<"@">>)
            THEN (IF StartsWith(version, sHttp) \/ StartsWith(version, sHttps)
                  THEN "url"
                  ELSE IF StartsWith(version, sFile) THEN "file" ELSE "git")
            ELSE IF isAlias THEN "alias" ELSE "semver"]

versionInfoToAllowedVersions_StrictAge(releaseTimes, minAge, clock) ==
    LET allVersions == SelectSeq(Keys(releaseTimes),
                                 LAMBDA v : v # sModified /\ v # sCreated)
    IN  [allowedVersions |->
            SelectSeq(allVersions,
                      LAMBDA v : /\ TimeOf(releaseTimes, v) # NoTime
                                 /\ TimeOf(releaseTimes, v) < clock - minAge * MsPerMinute),
         allVersions |-> allVersions]

versionInfoToAllowedVersions_KeepUntimed(releaseTimes, minAge, clock) ==
    LET allVersions == SelectSeq(Keys(releaseTimes),
                                 LAMBDA v : v # sModified /\ v # sCreated)
    IN  [allowedVersions |->
            SelectSeq(allVersions,
                      LAMBDA v : TimeOf(releaseTimes, v) <= clock - minAge * MsPerMinute),
         allVersions |-> allVersions]

versionInfoToAllowedVersions_IgnoreAge(releaseTimes, minAge, clock) ==
    LET allVersions == SelectSeq(Keys(releaseTimes),
                                 LAMBDA v : v # sModified /\ v # sCreated)
    IN  [allowedVersions |-> allVersions, allVersions |-> allVersions]

\* versionInfoToAllowedVersions: {allowedVersions, allVersions}
versionInfoToAllowedVersions(releaseTimes, minAge, clock) ==
    LET allVersions == SelectSeq(Keys(releaseTimes),
                                 LAMBDA v : v # sModified /\ v # sCreated)
        threshold == clock - minAge * MsPerMinute
        allowedVersions ==
            SelectSeq(allVersions,
                      LAMBDA v : /\ TimeOf(releaseTimes, v) # NoTime
                                 /\ TimeOf(releaseTimes, v) <= threshold)
    IN  [allowedVersions |-> allowedVersions, allVersions |-> allVersions]

\* one line of output: the two-character status and the parts that follow the name
Line(status, name, version, update, policy, latest, tooNew, note) ==
    [status |-> status, name |-> name, version |-> version, update |-> update,
     policy |-> policy, latest |-> latest, tooNew |-> tooNew, note |-> note]

\* the range a policy resolves to: "<=" the tag's version when it names a dist-tag
DesiredRange(desired, tags) ==
    IF Truthy(Get(tags, desired)) THEN <<"<", "=">> \o Get(tags, desired) ELSE desired

\* the result of findWantedVersion and the lines it printed
Wanted(kind, wanted, newest, lines) ==
    [kind |-> kind, wanted |-> wanted, newest |-> newest, lines |-> lines]

\* the `if (!wanted)` that ends findWantedVersion
WantedOrNone(wanted, newest, desired, name, version) ==
    IF ~Truthy(wanted)
    THEN Wanted("null", NULL, newest,
                <<Line("X ", name, version, NULL, desired, NULL, NULL, "no version found")>>)
    ELSE Wanted("ok", wanted, newest, <<>>)

\* findWantedVersion from the two calls of findByRange on
WantedOf(wanted, newest, desired, name, version) ==
    IF Truthy(newest) /\ wanted # newest /\ Truthy(wanted) /\ LtThrows(wanted, version)
    THEN Wanted("throw", wanted, newest, <<>>)
    ELSE IF Truthy(newest) /\ wanted # newest /\ (~Truthy(wanted) \/ Lt(wanted, version))
    THEN Wanted("null", wanted, newest,
                <<Line("X ", name, version, NULL, desired, NULL, newest,
                       "current and more recent versions too new")>>)
    ELSE WantedOrNone(wanted, newest, desired, name, version)

findWantedVersion_Swapped(allowedVersions, allVersions, desired, name, tags, version) ==
    WantedOf(findByRange(allVersions, DesiredRange(desired, tags)),
             findByRange(allowedVersions, DesiredRange(desired, tags)),
             desired, name, version)

findWantedVersion_NoBlockingRule(allowedVersions, allVersions, desired, name, tags, version) ==
    WantedOrNone(findByRange(allowedVersions, DesiredRange(desired, tags)),
                 findByRange(allVersions, DesiredRange(desired, tags)),
                 desired, name, version)

\* findWantedVersion: kind "ok" is {newest, wanted}, "null" is the null result
\* after its two lines of output, "throw" is the TypeError of lt(wanted, version)
findWantedVersion(allowedVersions, allVersions, desired, name, tags, version) ==
    WantedOf(findByRange(allowedVersions, DesiredRange(desired, tags)),
             findByRange(allVersions, DesiredRange(desired, tags)),
             desired, name, version)

logResultToUser_HeldBackFirst(desired, latest, newest, name, version, wanted) ==
    LET heldBack == Truthy(newest) /\ wanted # newest
        status == IF wanted # version THEN "> "
                  ELSE IF heldBack THEN "! "
                  ELSE IF desired # sLatest THEN "~ "
                  ELSE "  "
    IN  Line(status, name, version,
             IF wanted # version THEN wanted ELSE NULL,
             IF desired # sLatest THEN desired ELSE NULL,
             IF desired # sLatest /\ desired # latest THEN latest ELSE NULL,
             IF heldBack THEN newest ELSE NULL,
             "")

\* logResultToUser: the line printed for a resolved package
logResultToUser(desired, latest, newest, name, version, wanted) ==
    LET heldBack == Truthy(newest) /\ wanted # newest
        status == IF wanted # version THEN "> "
                  ELSE IF desired # sLatest THEN "~ "
                  ELSE IF heldBack THEN "! "
                  ELSE "  "
    IN  Line(status, name, version,
             IF wanted # version THEN wanted ELSE NULL,
             IF desired # sLatest THEN desired ELSE NULL,
             IF desired # sLatest /\ desired # latest THEN latest ELSE NULL,
             IF heldBack THEN newest ELSE NULL,
             "")

StripHashes_Keep(s) == s

\* desired.replace(/^#+/g, "")
RECURSIVE StripHashes(_)
StripHashes(s) == IF s # <<>> /\ s[1] = "#" THEN StripHashes(Tail(s)) ELSE s

\* the verType printed on the line of a skipped package
VerTypeText(verType) ==
    CASE verType = "git" -> <<"g", "i", "t">>
      [] verType = "url" -> <<"u", "r", "l">>
      [] OTHER -> <<"f", "i", "l", "e">>

\* the answer of a registry query that failed: fetchVersionInfo returns null
NoInfo == [ok |-> FALSE, distTags |-> <<>>, hasTime |-> FALSE, time |-> <<>>]

\* fetchVersionInfo({alias, name}): the tool's view of the package alias ?? name
fetchVersionInfo(alias, name, reg) ==
    LET pkg == IF alias # NULL THEN alias ELSE name
    IN  IF pkg \in DOMAIN reg THEN reg[pkg] ELSE NoInfo

\* config.overrides[name] ?? "latest"
Desired(cfg, name) ==
    IF name \in DOMAIN cfg.overrides THEN cfg.overrides[name] ELSE sLatest

ResolvedValue_Bare(alias, wanted) == wanted

\* the value updatePackage returns for a resolved package
ResolvedValue(alias, wanted) ==
    IF Truthy(alias) THEN sNpmColon \o alias \o <<"@">> \o wanted ELSE wanted

VersionStatus_BlockedWhenKept(version, wanted, latest) ==
    [blocked |-> version = wanted,
     latest |-> version # wanted /\ wanted = latest,
     semi |-> version # wanted /\ wanted # latest]

\* versionStatus of updatePackage
VersionStatus(version, wanted, latest) ==
    [blocked |-> version = wanted /\ wanted # latest,
     latest |-> version # wanted /\ wanted = latest,
     semi |-> version # wanted /\ wanted # latest]

shouldAskVersion_AllOnly(ask, st) == ask = "all"

\* shouldAskVersion of updatePackage
shouldAskVersion(ask, st) ==
    \/ ask = "all"
    \/ ask = "blocked" /\ st.blocked
    \/ ask = "semi" /\ st.semi
    \/ ask = "latest" /\ st.latest
    \/ ask = "nonlatest" /\ (st.blocked \/ st.semi)
    \/ ask = "changed" /\ (st.latest \/ st.semi)

NoStatus == [blocked |-> FALSE, latest |-> FALSE, semi |-> FALSE]

\* what one call of updatePackage did up to its return, its throw or its await of
\* the selector: kind is "return", "throw" or "ask"; outcome names the branch taken
Result(kind, outcome, value, lines, decision, desired, latest, st, options, alias) ==
    [kind |-> kind, outcome |-> outcome, value |-> value, lines |-> lines,
     wanted |-> decision.wanted, newest |-> decision.newest, desired |-> desired,
     latest |-> latest, st |-> st, options |-> options, alias |-> alias]

NoDecision == [wanted |-> NULL, newest |-> NULL]

\* updatePackage up to the point where it returns, throws or awaits the selector;
\* info is versionInfo ?? fetchVersionInfo(...), evaluated by the caller
updatePackage(name, version, info, cfg, clock) ==
    LET \* from `const wantedInfo = findWantedVersion(...)` on
        Decide(vt, desired, allVersions, w, latest, st) ==
            IF w.kind = "throw"
            THEN Result("throw", "typeerror", version, <<>>, w, desired, latest,
                        NoStatus, <<>>, vt.alias)
            ELSE IF w.kind = "null"
            THEN Result("return", "failed", version, w.lines, w, desired, latest,
                        NoStatus, <<>>, vt.alias)
            ELSE Result(IF shouldAskVersion(cfg.ask, st) THEN "ask" ELSE "return",
                        "resolved",
                        IF shouldAskVersion(cfg.ask, st)
                        THEN version ELSE ResolvedValue(vt.alias, w.wanted),
                        <<logResultToUser(desired, latest, w.newest, name, version, w.wanted)>>,
                        w, desired, latest, st, allVersions, vt.alias)
        Status(vt, desired, allVersions, w) ==
            Decide(vt, desired, allVersions, w, info.distTags[sLatest],
                   VersionStatus(version, w.wanted, info.distTags[sLatest]))
        \* from `const {allowedVersions, allVersions} = ...` on
        Resolve(vt, desired, av) ==
            Status(vt, desired, av.allVersions,
                   findWantedVersion(av.allowedVersions, av.allVersions, desired,
                                     name, info.distTags, version))
        \* the branch on verType, then on the answer of the registry
        Branch(vt, desired, hash) ==
            IF vt.verType \in {"file", "git", "url"} THEN
                IF hash = sLatest \/ vt.verType # "git"
                THEN Result("return", "skipped", version,
                            <<Line("- ", name, VerTypeText(vt.verType), NULL, NULL, NULL, NULL, "")>>,
                            NoDecision, desired, NULL, NoStatus, <<>>, vt.alias)
                ELSE Result("return", "git", Split(version, "#")[1] \o <<"#">> \o hash,
                            <<Line("- ", name, <<"g", "i", "t", "#">> \o hash, NULL, NULL, NULL, NULL, "")>>,
                            NoDecision, desired, NULL, NoStatus, <<>>, vt.alias)
            ELSE IF ~(info.ok /\ Truthy(Get(info.distTags, sLatest)) /\ info.hasTime)
            THEN Result("return", "requesterror", version,
                        <<Line("X ", name, version, NULL, desired, NULL, NULL, "request error")>>,
                        NoDecision, desired, NULL, NoStatus, <<>>, vt.alias)
            ELSE Resolve(vt, desired, versionInfoToAllowedVersions(info.time, cfg.minAge, clock))
    IN  Branch(findVersionType(name, version), Desired(cfg, name),
               StripHashes(Desired(cfg, name)))

\* updatePackage from the point where the selector resolved with `selected`
updatePackageSelected(r, name, version, selected) ==
    LET desired == IF selected = r.latest THEN sLatest ELSE selected
    IN  [r EXCEPT !.kind = "return",
                  !.value = ResolvedValue(r.alias, selected),
                  !.wanted = selected,
                  !.newest = NULL,
                  !.desired = desired,
                  !.lines = r.lines \o
                      <<logResultToUser(desired, r.latest, NULL, name, version, selected)>>]

(***************************************************************************)
(* select.js                                                               *)
(***************************************************************************)

CTRL_C == <<"ETX">>
BACKSPACE == <<"DEL">>
CTRL_BACKSPACE == <<"ETB">>
ARROW_ESC == <<"ESC", "[">>
ENTER == {<<"CR">>, <<"LF">>}

\* list[index] for a JavaScript index: undefined outside 0..length-1
At(list, index) == IF index >= 0 /\ index < Len(list) THEN list[index + 1] ELSE NULL

\* s.toLowerCase()
LowerCase(s) == [i \in 1..Len(s) |-> ToLower(s[i])]

FilterScan_AnyOrder(s, q, i, k) ==
    \A n \in 1..Len(q) : \E m \in 1..Len(s) : s[m] = q[n]

\* the loop of filter over the characters of s: i is the count of query characters
\* matched so far, k the position in s
RECURSIVE FilterScan(_, _, _, _)
FilterScan(s, q, i, k) ==
    IF k > Len(s) THEN FALSE
    ELSE LET j == IF i < Len(q) /\ s[k] = q[i + 1] THEN i + 1 ELSE i
         IN  IF j = Len(q) THEN TRUE ELSE FilterScan(s, q, j, k + 1)

\* filter(options, query)
filter(options, query) ==
    SelectSeq(options,
              LAMBDA s : query = <<>> \/ FilterScan(LowerCase(s), LowerCase(query), 0, 1))

\* list.slice(start, start + max).map(...): the entry at index between "<" and ">"
WindowFrom(list, index, max, start) ==
    [i \in 1..max |-> IF start + i - 1 = index
                      THEN <<"<">> \o list[start + i] \o <<">">>
                      ELSE list[start + i]]

WindowStart_FromSelected(length, index, max) ==
    IF index + max > length THEN length - max ELSE index

\* start of inlineWindow after its two corrections
WindowStart(length, index, max) ==
    IF (IF index - (max \div 2) < 0 THEN 0 ELSE index - (max \div 2)) + max > length
    THEN length - max
    ELSE IF index - (max \div 2) < 0 THEN 0 ELSE index - (max \div 2)

\* inlineWindow(list, index): the entries that join(", ") puts on the prompt line
inlineWindow(list, index) ==
    IF Len(list) = 0 THEN <<>>
    ELSE WindowFrom(list, index,
                    IF Len(list) < 3 THEN Len(list) ELSE 3,
                    WindowStart(Len(list), index, IF Len(list) < 3 THEN Len(list) ELSE 3))

\* the state of one selector session, with the window its prompt line shows
Session(options, query, matches, selectedIndex, listening) ==
    [options |-> options, query |-> query, matches |-> matches,
     selectedIndex |-> selectedIndex, listening |-> listening, inline |-> <<>>]

NoSession == Session(<<>>, <<>>, <<>>, -1, FALSE)

Matched_ByVersion(sn, matches) ==
    [sn EXCEPT !.matches = matches,
               !.selectedIndex =
                   IF /\ Truthy(At(matches, sn.selectedIndex))
                      /\ \/ sn.matches = <<>>
                         \/ Includes(matches, At(sn.matches, sn.selectedIndex))
                   THEN sn.selectedIndex ELSE 0]

Matched_KeepIndex(sn, matches) == [sn EXCEPT !.matches = matches]

\* updateMatches: filter again and reset a selection that has no entry
Matched(sn, matches) ==
    [sn EXCEPT !.matches = matches,
               !.selectedIndex = IF Truthy(At(matches, sn.selectedIndex))
                                 THEN sn.selectedIndex ELSE 0,
               !.inline = inlineWindow(matches,
                                       IF Truthy(At(matches, sn.selectedIndex))
                                       THEN sn.selectedIndex ELSE 0)]

updateMatches(sn) == Matched(sn, filter(sn.options, sn.query))

select_FromZero(options, firstSelection) ==
    updateMatches(Session(options, <<>>, <<>>, -1, TRUE))

\* select(prompt, options, firstSelection) up to the return of its promise: the
\* listener is registered and the matches are shown
select(options, firstSelection) ==
    updateMatches(Session(options, <<>>, <<>>,
                          IF Truthy(firstSelection)
                          THEN IndexOf(options, firstSelection) - 1 ELSE -1,
                          TRUE))

\* ch > " " && ch <= "~"
Printable(ch) == StrLess(<<" ">>, ch) /\ (ch = <<"~">> \/ StrLess(ch, <<"~">>))

\* onData(ch) for a chunk that is not Ctrl-C: what the handler does to the session,
\* and whether it resolved the promise; after an Enter that resolves, the rest of
\* the handler runs on the same chunk
\* the `if`s of onData, one after the other on the same chunk
OnEnter_KeepListening(sn, ch) == sn

OnEnter(sn, ch) ==
    IF ch \in ENTER /\ Truthy(At(sn.matches, sn.selectedIndex))
    THEN [sn EXCEPT !.listening = FALSE] ELSE sn

IsArrow(ch, letters) == StartsWith(ch, ARROW_ESC) /\ Len(ch) >= 3 /\ ch[3] \in letters

OnArrowNext_NoClamp(sn, ch) ==
    IF IsArrow(ch, {"A", "C"}) /\ Len(sn.matches) > 0
    THEN updateMatches([sn EXCEPT !.selectedIndex = sn.selectedIndex + 1])
    ELSE sn

OnArrowNext(sn, ch) ==
    IF IsArrow(ch, {"A", "C"}) /\ Len(sn.matches) > 0
    THEN updateMatches([sn EXCEPT !.selectedIndex =
              IF sn.selectedIndex + 1 < Len(sn.matches) - 1
              THEN sn.selectedIndex + 1 ELSE Len(sn.matches) - 1])
    ELSE sn

OnArrowPrevious(sn, ch) ==
    IF IsArrow(ch, {"B", "D"}) /\ Len(sn.matches) > 0
    THEN updateMatches([sn EXCEPT !.selectedIndex =
              IF sn.selectedIndex - 1 > 0 THEN sn.selectedIndex - 1 ELSE 0])
    ELSE sn

OnCtrlBackspace(sn, ch) ==
    IF ch = CTRL_BACKSPACE /\ Len(sn.query) > 0
    THEN updateMatches([sn EXCEPT !.query = <<>>])
    ELSE sn

OnBackspace(sn, ch) ==
    IF ch = BACKSPACE /\ Len(sn.query) > 0
    THEN updateMatches([sn EXCEPT !.query = SubSeq(sn.query, 1, Len(sn.query) - 1)])
    ELSE sn

OnPrintable(sn, ch) ==
    IF Printable(ch) THEN updateMatches([sn EXCEPT !.query = sn.query \o ch]) ELSE sn

onData(sn, ch) ==
    [session |-> OnPrintable(OnBackspace(OnCtrlBackspace(OnArrowPrevious(OnArrowNext(
                     OnEnter(sn, ch), ch), ch), ch), ch), ch),
     resolved |-> ch \in ENTER /\ Truthy(At(sn.matches, sn.selectedIndex)),
     value |-> IF ch \in ENTER /\ Truthy(At(sn.matches, sn.selectedIndex))
               THEN At(sn.matches, sn.selectedIndex) ELSE NULL]

(***************************************************************************)
(* updater.js: the manifest and the loop of updater                        *)
(***************************************************************************)

\* Object.keys(config.deps) translated by depNameTranslateObj, in that order
DepOrder == <<[key |-> "dev", depType |-> "devDependencies"],
              [key |-> "optional", depType |-> "optionalDependencies"],
              [key |-> "peer", depType |-> "peerDependencies"],
              [key |-> "prod", depType |-> "dependencies"]>>

\* depTypes of updater: the enabled dependency groups, in order
depTypes(cfg) ==
    LET enabled == SelectSeq(DepOrder, LAMBDA d : cfg.deps[d.key])
    IN  [i \in 1..Len(enabled) |-> enabled[i].depType]

\* the entries the two loops of updater visit, in order, as <<depType, index>>
RECURSIVE PositionsFrom(_, _, _)
PositionsFrom(types, manifest, d) ==
    IF d > Len(types) THEN <<>>
    ELSE (IF types[d] \in DOMAIN manifest
          THEN [i \in 1..Len(manifest[types[d]]) |-> <<types[d], i>>]
          ELSE <<>>)
         \o PositionsFrom(types, manifest, d + 1)

Positions(cfg, manifest) == PositionsFrom(depTypes(cfg), manifest, 1)

\* the entry at a position
EntryAt(manifest, pos) == manifest[pos[1]][pos[2]]

\* packageList of updater: the names of the entries of type semver
Names(entries) == [i \in 1..Len(entries) |-> entries[i].name]

Entries(manifest, ps) == [i \in 1..Len(ps) |-> EntryAt(manifest, ps[i])]

packageList(cfg, manifest) ==
    Names(SelectSeq(Entries(manifest, Positions(cfg, manifest)),
                    LAMBDA e : findVersionType(e.name, e.version).verType = "semver"))

\* getVersionsBatch(packageList): one record per package, or the empty list that is
\* left when the request throws because a package cannot be resolved
getVersionsBatch(names, reg) ==
    IF \A i \in 1..Len(names) : names[i] \in DOMAIN reg /\ reg[names[i]].ok
    THEN [i \in 1..Len(names) |-> [name |-> names[i], info |-> reg[names[i]]]]
    ELSE <<>>

\* bulkFetchedInfo.find(i => i.name === name) ?? fetchVersionInfo({alias, name})
InfoFor(bulkFetched, name, version, reg) ==
    LET found == SelectSeq(bulkFetched, LAMBDA b : b.name = name)
    IN  IF found # <<>> THEN found[1].info
        ELSE fetchVersionInfo(findVersionType(name, version).alias, name, reg)

(***************************************************************************)
(* Inputs: versions, catalogs, policies and configurations                 *)
(***************************************************************************)

v100 == <<"1", ".", "0", ".", "0">>
v110 == <<"1", ".", "1", ".", "0">>
v200 == <<"2", ".", "0", ".", "0">>
\* a catalog key that is neither a version nor a valid range
sOld == <<"o", "l", "d">>
sCaret1 == <<"^", "1">>
sFoo == <<"f", "o", "o">>
sBar == <<"b", "a", "r">>
sAl == <<"a", "l">>

\* the version keys a catalog may hold, in registry order
KeyPool == <<v100, v110, v200, sOld>>

\* the most version keys one catalog holds
MaxVersions == 2

\* Date.now() of the run, and the release times of the catalogs: unknown, exactly
\* five minutes old, and younger than five minutes
ClockPool == {600000}
TimePool == {NoTime, 300000, 500000}

\* config.minAge, in minutes
MinAgePool == {0, 5}

AskLevels == {"all", "latest", "nonlatest", "semi", "changed", "blocked", "none"}

\* the i-th smallest element of a set of numbers
Nth(S, i) == CHOOSE x \in S : Cardinality({y \in S : y < x}) = i - 1

\* the release-time map {created, <key>: <time> for the keys in S, modified}
TimeMap(S, f) ==
    <<[k |-> sCreated, t |-> 300000]>>
    \o [i \in 1..Cardinality(S) |-> [k |-> KeyPool[Nth(S, i)], t |-> f[Nth(S, i)]]]
    \o <<[k |-> sModified, t |-> 300000]>>

TimeMaps ==
    UNION { { TimeMap(S, f) : f \in [S -> TimePool] } :
            S \in { T \in SUBSET (1..Len(KeyPool)) : Cardinality(T) <= MaxVersions } }

\* dist-tags: latest alone, or latest and a tag that is named like the catalog key
\* sOld
TagMaps == { (sLatest :> v110), (sLatest :> v200), (sLatest :> v200) @@ (sOld :> v110) }

Catalog(tags, time) == [ok |-> TRUE, distTags |-> tags, hasTime |-> TRUE, time |-> time]

\* answers the registry can give: a full catalog, no answer, a catalog whose latest
\* tag is null, a catalog without a latest tag, a catalog without release times
Infos ==
    { Catalog(tags, time) : tags \in TagMaps, time \in TimeMaps }
    \cup { NoInfo,
           Catalog((sLatest :> NULL), TimeMap({3}, [i \in {3} |-> 300000])),
           Catalog((sOld :> v110), TimeMap({3}, [i \in {3} |-> 300000])),
           [ok |-> TRUE, distTags |-> (sLatest :> v110), hasTime |-> FALSE, time |-> <<>>] }

\* config.overrides[name]: none (the default policy), a range, a version, and a
\* string that is a dist-tag of some catalogs, a key of others and otherwise an
\* invalid range
Policies == {NULL, sCaret1, v200, sOld}

\* declared versions of a registry entry and of the aliased entry
DeclaredVersions == {v100, v110, v200, <<"^">> \o v100}
AliasedVersions == {sNpmColon \o sFoo \o <<"@">> \o v110}

Config(ask, minAge, overrides) == [ask |-> ask, minAge |-> minAge, overrides |-> overrides]

\* the overrides object with a policy for one name, or without one
OverridesFor(name, policy) == IF policy = NULL THEN <<>> ELSE (name :> policy)

\* the manifests: an aliased entry in devDependencies, under a name of its own or
\* under the name of a registry package, registry entries in dependencies, at most
\* MaxEntries entries in all
MaxEntries == 2

Entry(name, version) == [name |-> name, version |-> version]

DevLists ==
    { <<>>,
      <<Entry(sAl, sNpmColon \o sFoo \o <<"@">> \o v100)>>,
      <<Entry(sBar, sNpmColon \o sFoo \o <<"@">> \o v100)>> }

ProdPool == {Entry(sFoo, v100), Entry(sFoo, <<"^">> \o v100), Entry(sBar, v110)}

ProdLists ==
    { l \in UNION { [1..n -> ProdPool] : n \in 0..MaxEntries } :
        \A i, j \in 1..Len(l) : i # j => l[i].name # l[j].name }

Manifest(dev, prod) ==
    (IF dev = <<>> THEN <<>> ELSE ("devDependencies" :> dev))
    @@ (IF prod = <<>> THEN <<>> ELSE ("dependencies" :> prod))

Manifests ==
    { Manifest(p[1], p[2]) :
        p \in { q \in DevLists \X ProdLists :
                  /\ Len(q[1]) + Len(q[2]) >= 1
                  /\ Len(q[1]) + Len(q[2]) <= MaxEntries } }

\* release-time maps of the runs
TimesOf(t100, t110, t200) ==
    <<[k |-> sCreated, t |-> 300000], [k |-> v100, t |-> t100], [k |-> v110, t |-> t110],
      [k |-> v200, t |-> t200], [k |-> sModified, t |-> 500000]>>

\* the registries of the runs: bar is always there, foo fails to be queried, has a
\* latest version younger than five minutes, has old versions only, or gives an
\* answer that lacks a part
BarCatalog == Catalog((sLatest :> v110), <<[k |-> v100, t |-> 300000], [k |-> v110, t |-> 300000]>>)
FooYoung == Catalog((sLatest :> v200), TimesOf(300000, 300000, 500000))
FooSettled == Catalog((sLatest :> v200), TimesOf(300000, 300000, 300000))

\* answers for foo without a latest tag, and without a release-time map
FooUntagged == Catalog((sOld :> v110), TimesOf(300000, 300000, 300000))
FooTimeless == [ok |-> TRUE, distTags |-> (sLatest :> v200), hasTime |-> FALSE, time |-> <<>>]

Registries ==
    { (sBar :> BarCatalog),
      (sBar :> BarCatalog) @@ (sFoo :> FooYoung),
      (sBar :> BarCatalog) @@ (sFoo :> FooSettled),
      (sBar :> BarCatalog) @@ (sFoo :> FooUntagged),
      (sBar :> BarCatalog) @@ (sFoo :> FooTimeless) }

\* config.deps as it is by default, and with the dev group switched off
DefaultDeps == [dev |-> TRUE, optional |-> FALSE, peer |-> FALSE, prod |-> TRUE]
ProdOnlyDeps == [dev |-> FALSE, optional |-> FALSE, peer |-> FALSE, prod |-> TRUE]

RunConfig(ask, minAge, overrides, deps) ==
    [ask |-> ask, minAge |-> minAge, overrides |-> overrides, deps |-> deps]

\* the configurations of the runs but for config.ask
Settings ==
    { [minAge |-> 0, overrides |-> <<>>, deps |-> DefaultDeps],
      [minAge |-> 5, overrides |-> <<>>, deps |-> DefaultDeps],
      [minAge |-> 0, overrides |-> (sFoo :> sCaret1), deps |-> DefaultDeps],
      [minAge |-> 0, overrides |-> <<>>, deps |-> ProdOnlyDeps] }

RunAskLevels == {"none", "all", "changed"}

\* the chunks of input a selector session of the runs receives, besides Enter and
\* Ctrl-C: arrow up, arrow down, the character 2
TypedKeys == {ARROW_ESC \o <<"A">>, ARROW_ESC \o <<"B">>, <<"2">>}

\* the most chunks typed in one process, besides Enter and Ctrl-C
MaxKeys == 2

VARIABLES
    inp,        \* SpecResolve: the arguments of updatePackage
    out,        \* SpecResolve: what updatePackage did
    pc,         \* where the process is
    file,       \* package.json on disk
    orig,       \* package.json as it was when this run of nus started
    registry,        \* the registry
    config,        \* config
    now,      \* Date.now()
    run,        \* 1 in the first run of nus, 2 in the second
    pack,       \* pack of updater
    bulk,       \* bulkFetchedInfo of updater
    idx,        \* the position of the two loops of updater
    cur,        \* the call of updatePackage that awaits the selector
    sel,        \* the selector session
    raw,        \* process.stdin is in raw mode
    exitCode,   \* the exit code of the process, -1 while it runs
    hist,       \* what updatePackage did for the entries visited in this run
    writes,     \* the number of times package.json was written
    keys,       \* the number of chunks typed
    listeners   \* the number of "data" listeners registered on process.stdin

runVars == <<file, orig, registry, config, now, run, pack, bulk, idx, cur, sel, raw,
             exitCode, hist, writes, keys, listeners>>

vars == <<inp, out, pc, file, orig, registry, config, now, run, pack, bulk, idx, cur, sel,
          raw, exitCode, hist, writes, keys, listeners>>

NoFile == [readable |-> FALSE, manifest |-> <<>>]

NoCall == [kind |-> "none"]

(***************************************************************************)
(* SpecResolve: updatePackage as a function of one manifest entry, the     *)
(* registry's answer, the configuration and the clock                    *)
(***************************************************************************)

NoOutput == [done |-> FALSE]

InitResolve ==
    /\ \E info \in Infos, policy \in Policies, minAge \in MinAgePool, t0 \in ClockPool,
          entry \in ({sFoo} \X DeclaredVersions) \cup ({sAl} \X AliasedVersions) :
           inp = [name |-> entry[1], version |-> entry[2], info |-> info,
                  policy |-> policy, minAge |-> minAge, now |-> t0]
    /\ out = NoOutput
    /\ pc = "resolve"
    /\ file = NoFile /\ orig = NoFile /\ registry = <<>> /\ config = <<>> /\ now = 0
    /\ run = 0 /\ pack = <<>> /\ bulk = <<>> /\ idx = 0 /\ cur = NoCall
    /\ sel = NoSession /\ raw = FALSE /\ exitCode = -1 /\ hist = <<>>
    /\ writes = 0 /\ keys = 0 /\ listeners = 0

\* one call of updatePackage under config.ask = ask
ApplyUpdatePackage(ask) ==
    /\ pc = "resolve"
    /\ ~out.done
    /\ out' = [done |-> TRUE, ask |-> ask,
               vt |-> findVersionType(inp.name, inp.version),
               av |-> versionInfoToAllowedVersions(inp.info.time, inp.minAge, inp.now),
               r |-> updatePackage(inp.name, inp.version, inp.info,
                                   Config(ask, inp.minAge, OverridesFor(inp.name, inp.policy)),
                                   inp.now)]
    /\ UNCHANGED <<inp, pc>>
    /\ UNCHANGED runVars

NextResolve == \E ask \in AskLevels : ApplyUpdatePackage(ask)

SpecResolve == InitResolve /\ [][NextResolve]_vars

(***************************************************************************)
(* SpecTypes: updatePackage applied to entries of every version type       *)
(***************************************************************************)

\* a scoped package name, and a GitHub shorthand of a repository
sScoped == <<"@", "s", "/", "f", "o", "o">>
sRepo == <<"s", "/", "f", "o", "o">>

\* declared versions of every lexical shape: a version, aliases to a plain and to a
\* scoped package, git references without and with a commit-ish, urls, file paths
TypedVersions ==
    { v100,
      sNpmColon \o sFoo \o <<"@">> \o v100,
      sNpmColon \o sScoped \o <<"@">> \o v100,
      sRepo,
      sRepo \o <<"#">> \o v100,
      sRepo \o <<"#">> \o v100 \o <<"#">> \o v200,
      sHttp \o <<"/", "/">> \o sRepo,
      sHttps \o <<"/", "/">> \o sRepo \o <<"#">> \o v100,
      sFile \o <<".", ".", "/">> \o sFoo }

\* config.overrides[name] of these entries: none, "latest" behind a "#", and a
\* commit-ish (that is also a version) without a "#", with one and with two
TypedPolicies ==
    { NULL, <<"#">> \o sLatest, v110, <<"#">> \o v110, <<"#", "#">> \o v110 }

\* the registry's answers for these entries: none, and a catalog where all is old
TypedInfos ==
    { NoInfo,
      Catalog((sLatest :> v200),
              <<[k |-> v100, t |-> 300000], [k |-> v110, t |-> 300000],
                [k |-> v200, t |-> 300000]>>) }

InitTypes ==
    /\ \E name \in {sFoo, sAl, sScoped}, version \in TypedVersions,
          info \in TypedInfos, policy \in TypedPolicies :
           inp = [name |-> name, version |-> version, info |-> info,
                  policy |-> policy, minAge |-> 0, now |-> 600000]
    /\ out = NoOutput
    /\ pc = "resolve"
    /\ file = NoFile /\ orig = NoFile /\ registry = <<>> /\ config = <<>> /\ now = 0
    /\ run = 0 /\ pack = <<>> /\ bulk = <<>> /\ idx = 0 /\ cur = NoCall
    /\ sel = NoSession /\ raw = FALSE /\ exitCode = -1 /\ hist = <<>>
    /\ writes = 0 /\ keys = 0 /\ listeners = 0

SpecTypes == InitTypes /\ [][NextResolve]_vars

(***************************************************************************)
(* Claims about the resolver, checked under SpecResolve                    *)
(***************************************************************************)

\* the policy string in force for the entry
PolicyOf(i) == IF i.policy = NULL THEN sLatest ELSE i.policy

\* the catalog can be resolved against: it has a latest tag and release times
Usable(info) == info.ok /\ Truthy(Get(info.distTags, sLatest)) /\ info.hasTime

\* the catalog's versions: the keys of the release-time map but the synthetic two
CatalogVersions(info) ==
    { info.time[i].k : i \in { j \in 1..Len(info.time) :
                                 info.time[j].k \notin {sCreated, sModified} } }

\* the age-eligible versions: release time known and at least minAge minutes old
AgeEligible(i) ==
    { v \in CatalogVersions(i.info) :
        /\ TimeOf(i.info.time, v) # NoTime
        /\ TimeOf(i.info.time, v) <= i.now - i.minAge * MsPerMinute }

\* the range the policy resolves to
ResolvedPolicy(i) ==
    IF Truthy(Get(i.info.distTags, PolicyOf(i)))
    THEN <<"<", "=">> \o i.info.distTags[PolicyOf(i)]
    ELSE PolicyOf(i)

\* findWantedVersion returned a decision / returned null
NonFailed == out.done /\ out.r.outcome = "resolved"
Failed == out.done /\ out.r.outcome = "failed"

SemverOlder(a, b) == ValidSemVer(a) /\ ValidSemVer(b) /\ Lt(a, b)

\* C1: a non-failed decision whose wanted is semver-older than the declared version
\* has wanted = newest; and when the age gate holds a satisfying version back
\* (newest exists, wanted # newest) while the best age-eligible version is absent or
\* semver-older than the declared version, the decision is failed and the declared
\* version is kept
C1_NoSilentDowngrade ==
    /\ NonFailed /\ SemverOlder(out.r.wanted, inp.version) => out.r.wanted = out.r.newest
    /\ (/\ out.done
        /\ Usable(inp.info)
        /\ LET best == findByRange(out.av.allowedVersions, ResolvedPolicy(inp))
               top == findByRange(out.av.allVersions, ResolvedPolicy(inp))
           IN  /\ Truthy(top)
               /\ best # top
               /\ (~Truthy(best) \/ SemverOlder(best, inp.version)))
       => (Failed /\ out.r.kind = "return" /\ out.r.value = inp.version)

\* C1 witness: the blocking rule refused a downgrade to an older eligible version
C1_Witness ==
    /\ Failed
    /\ Truthy(out.r.wanted)
    /\ Truthy(out.r.newest)
    /\ SemverOlder(out.r.wanted, inp.version)
    /\ out.r.value = inp.version

\* C2: the wanted version of a non-failed decision is age-eligible and satisfies
\* the resolved policy, as the literal version or as a range
C2_WantedEligibleAndSatisfying ==
    NonFailed =>
        /\ out.r.wanted \in AgeEligible(inp)
        /\ (out.r.wanted = ResolvedPolicy(inp)
            \/ Satisfies(out.r.wanted, ResolvedPolicy(inp)))

\* C2 witness: a decision that passed over a newer version that is too new
C2_Witness ==
    /\ NonFailed
    /\ inp.minAge > 0
    /\ Truthy(out.r.newest)
    /\ out.r.wanted # out.r.newest
    /\ out.r.newest \notin AgeEligible(inp)

\* the statuses of the specification that hold of a non-failed decision
SpecStatuses ==
    { s \in {"Unchanged", "Blocked", "Semi", "Latest"} :
        \/ s = "Unchanged" /\ inp.version = out.r.wanted /\ PolicyOf(inp) = sLatest
        \/ s = "Blocked" /\ inp.version = out.r.wanted /\ out.r.wanted # out.r.latest
        \/ s = "Latest" /\ inp.version # out.r.wanted /\ out.r.wanted = out.r.latest
        \/ s = "Semi" /\ inp.version # out.r.wanted /\ out.r.wanted # out.r.latest }

\* the statuses with Unchanged as what is neither Blocked, Semi nor Latest
CodeStatuses ==
    { s \in {"Unchanged", "Blocked", "Semi", "Latest"} :
        \/ s = "Unchanged" /\ inp.version = out.r.wanted /\ out.r.wanted = out.r.latest
        \/ s = "Blocked" /\ inp.version = out.r.wanted /\ out.r.wanted # out.r.latest
        \/ s = "Latest" /\ inp.version # out.r.wanted /\ out.r.wanted = out.r.latest
        \/ s = "Semi" /\ inp.version # out.r.wanted /\ out.r.wanted # out.r.latest }

\* the Ask Gate table: the statuses that trigger the selector under an AskScope
AskTable(ask) ==
    CASE ask = "all" -> {"Unchanged", "Blocked", "Semi", "Latest"}
      [] ask = "blocked" -> {"Blocked"}
      [] ask = "semi" -> {"Semi"}
      [] ask = "latest" -> {"Latest"}
      [] ask = "nonlatest" -> {"Blocked", "Semi"}
      [] ask = "changed" -> {"Semi", "Latest"}
      [] OTHER -> {}

Engaged == out.done /\ out.r.kind = "ask"

\* C4 as stated: for every status that holds of a non-failed decision the selector
\* is engaged exactly when (AskScope, status) is in the table, and a failed decision
\* never engages it
C4_AskGateAsStated ==
    /\ NonFailed => \A s \in SpecStatuses : (Engaged <=> s \in AskTable(out.ask))
    /\ (out.done /\ ~NonFailed) => ~Engaged

\* C4 amended: the same with Unchanged = declared == wanted and wanted equal to the
\* latest tag's version; the four statuses then partition the non-failed decisions
C4_AskGate ==
    /\ NonFailed => /\ Cardinality(CodeStatuses) = 1
                    /\ \A s \in CodeStatuses : (Engaged <=> s \in AskTable(out.ask))
    /\ (out.done /\ ~NonFailed) => ~Engaged

\* C4 witness: the selector engaged under nonlatest for a Blocked package
C4_Witness ==
    /\ NonFailed
    /\ Engaged
    /\ out.ask = "nonlatest"
    /\ CodeStatuses = {"Blocked"}

\* C10 as stated: a policy string that equals a version of the catalog resolves to
\* that version
C10_ExactMatchAsStated ==
    (/\ out.done
     /\ Usable(inp.info)
     /\ PolicyOf(inp) \in CatalogVersions(inp.info))
    => (NonFailed /\ out.r.wanted = PolicyOf(inp))

\* C10 amended: a policy string that names no dist-tag and equals an age-eligible
\* version of the catalog resolves to that version, valid range or not
C10_ExactMatch ==
    (/\ out.done
     /\ Usable(inp.info)
     /\ ~Truthy(Get(inp.info.distTags, PolicyOf(inp)))
     /\ PolicyOf(inp) \in AgeEligible(inp))
    => (NonFailed /\ out.r.wanted = PolicyOf(inp))

\* C10 witness: the policy is a catalog key that is no valid range, and it is wanted
C10_Witness ==
    /\ NonFailed
    /\ ParseRange(PolicyOf(inp)) = <<>>
    /\ out.r.wanted = PolicyOf(inp)

\* the statuses that hold of a decision by the flags updatePackage computed, with
\* Unchanged as declared == wanted == the latest tag's version
FlaggedStatuses ==
    { s \in {"Unchanged", "Blocked", "Semi", "Latest"} :
        \/ s = "Unchanged" /\ inp.version = out.r.wanted /\ out.r.wanted = out.r.latest
        \/ s = "Blocked" /\ out.r.st.blocked
        \/ s = "Latest" /\ out.r.st.latest
        \/ s = "Semi" /\ out.r.st.semi }

\* C11 as stated: exactly one of Unchanged, Blocked, Semi and Latest holds of every
\* non-failed decision, Unchanged being declared == wanted under the default policy
C11_ExactlyOneStatusAsStated == NonFailed => Cardinality(SpecStatuses) = 1

\* C11 amended: exactly one of the four statuses holds of every non-failed decision
\* when Unchanged is declared == wanted with wanted equal to the latest tag's
\* version, whatever the policy; the flags the resolver computes are those statuses
C11_ExactlyOneStatus ==
    NonFailed => /\ Cardinality(FlaggedStatuses) = 1
                 /\ FlaggedStatuses = CodeStatuses

\* C11 witness: a package pinned by a policy to the version it declares, which is
\* also the latest: no flag is set, and the default-policy Unchanged does not hold
C11_Witness ==
    /\ NonFailed
    /\ PolicyOf(inp) # sLatest
    /\ inp.version = out.r.wanted
    /\ out.r.wanted = out.r.latest
    /\ out.r.st = NoStatus
    /\ SpecStatuses = {}

\* C16: when findWantedVersion found a wanted and a newest version, wanted is not
\* semver-greater than newest (they are the same string when one of them is no
\* version); and a decision without a wanted version is not a resolved one
C16_WantedAtMostNewest ==
    out.done =>
        /\ (Truthy(out.r.wanted) /\ Truthy(out.r.newest)) =>
              \/ out.r.wanted = out.r.newest
              \/ /\ ValidSemVer(out.r.wanted)
                 /\ ValidSemVer(out.r.newest)
                 /\ ~Lt(out.r.newest, out.r.wanted)
        /\ ~Truthy(out.r.wanted) =>
              /\ ~NonFailed
              /\ out.r.kind = "return"
              /\ out.r.value = inp.version

\* C16 witness: a resolved decision whose wanted version is older than its newest
C16_Witness ==
    /\ NonFailed
    /\ Truthy(out.r.newest)
    /\ SemverOlder(out.r.wanted, out.r.newest)

\* the case of the README on minAge: the registry answered, the policy is the
\* default and the declared version is a version
MinAgeCase == out.done /\ Usable(inp.info) /\ PolicyOf(inp) = sLatest /\ ValidSemVer(inp.version)

\* the versions more recent than the declared one, up to the latest tag's version
MoreRecent ==
    { v \in CatalogVersions(inp.info) :
        /\ ValidSemVer(v)
        /\ Lt(inp.version, v)
        /\ ~Lt(inp.info.distTags[sLatest], v) }

\* the declared version is itself in the catalog and old enough
DeclaredEligible ==
    \E v \in AgeEligible(inp) :
        ValidSemVer(v) /\ ~Lt(v, inp.version) /\ ~Lt(inp.version, v)

Highest(S) == CHOOSE v \in S : \A w \in S : ~Lt(v, w)

HeldBack == Truthy(out.r.newest) /\ out.r.wanted # out.r.newest

BeforeLastAt(s) ==
    LET t == SubSeq(s, Len(sNpmColon) + 1, Len(s))
        ats == { i \in 1..Len(t) : t[i] = "@" }
    IN  IF ats = {} THEN <<>>
        ELSE SubSeq(t, 1, (CHOOSE i \in ats : \A j \in ats : j <= i) - 1)

\* C12 as stated: every entry whose declared version starts with the alias marker
\* "npm:" is classified as an aliased registry entry whose aliasTarget is the text
\* before the last "@" of the marker-stripped version, also when the name or the
\* version contains a path separator
C12_AliasPriorityAsStated ==
    (out.done /\ StartsWith(inp.version, sNpmColon))
    => /\ out.vt.verType = "alias"
       /\ out.vt.alias = BeforeLastAt(inp.version)

\* the lexical shapes of the version types: a path separator in the name or the
\* version under a name without scope marker, then the scheme of the version
SlashShaped(i) ==
    (Includes(i.name, "/") \/ Includes(i.version, "/")) /\ ~StartsWith(i.name, <<"@">>)

UrlOrFile(i) ==
    /\ SlashShaped(i)
    /\ \/ StartsWith(i.version, sHttp)
       \/ StartsWith(i.version, sHttps)
       \/ StartsWith(i.version, sFile)

GitReference(i) ==
    SlashShaped(i) /\ ~UrlOrFile(i) /\ ~StartsWith(i.version, sNpmColon)

\* the call reported the entry as skipped and returned its declared version
Skipped ==
    /\ out.r.kind = "return"
    /\ out.r.outcome = "skipped"
    /\ out.r.value = inp.version
    /\ Len(out.r.lines) = 1
    /\ out.r.lines[1].status = "- "

\* the call of updatePackage of this state again, on another declared version, under
\* another policy and with another answer of the registry
Again(version, policy, info) ==
    updatePackage(inp.name, version, info,
                  Config(out.ask, inp.minAge, OverridesFor(inp.name, policy)), inp.now)

\* C17: a url or file entry is reported skipped and keeps its declared version
\* whatever its policy, a git entry does under the default policy; none of the
\* three engages the selector, none depends on an answer of the registry, and
\* none is in the list of the batched query
C17_NonRegistrySkipped ==
    out.done =>
        /\ UrlOrFile(inp) => Skipped
        /\ (GitReference(inp) /\ PolicyOf(inp) = sLatest) => Skipped
        /\ (UrlOrFile(inp) \/ GitReference(inp)) =>
              /\ ~Engaged
              /\ out.r = Again(inp.version, inp.policy, NoInfo)
              /\ packageList(RunConfig(out.ask, inp.minAge, <<>>, DefaultDeps),
                             Manifest(<<>>, <<Entry(inp.name, inp.version)>>)) = <<>>

\* C17 witness: a url entry with a commit-ish policy and an answering registry was
\* skipped
C17_Witness ==
    /\ out.done
    /\ StartsWith(inp.version, sHttps)
    /\ inp.policy = <<"#">> \o v110
    /\ inp.info.ok
    /\ Skipped

\* p without its leading "#"s, and v up to its first "#"
Unhashed(p) ==
    SubSeq(p, Cardinality({ i \in 1..Len(p) : \A j \in 1..i : p[j] = "#" }) + 1, Len(p))

BeforeFirstHash(v) ==
    LET hs == { i \in 1..Len(v) : v[i] = "#" }
    IN  IF hs = {} THEN v ELSE SubSeq(v, 1, (CHOOSE i \in hs : \A j \in hs : i <= j) - 1)

\* what C18 says of a git entry under the policy p
CommitIshApplied(p) ==
    /\ out.r.kind = "return"
    /\ out.r.value = BeforeFirstHash(inp.version) \o <<"#">> \o Unhashed(p)
    /\ Again(out.r.value, p, inp.info).value = out.r.value
    /\ Again(inp.version, Unhashed(p), inp.info).value = out.r.value
    /\ Again(inp.version, <<"#">> \o Unhashed(p), inp.info).value = out.r.value

Init ==
    /\ inp = NoOutput /\ out = NoOutput
    /\ pc = "read"
    /\ \/ file = NoFile
       \/ \E m \in Manifests : file = [readable |-> TRUE, manifest |-> m]
    /\ orig = file
    /\ registry \in Registries
    /\ \E st \in Settings, ask \in RunAskLevels :
           config = RunConfig(ask, st.minAge, st.overrides, st.deps)
    /\ now \in ClockPool
    /\ run = 1
    /\ pack = <<>> /\ bulk = <<>> /\ idx = 0 /\ cur = NoCall
    /\ sel = NoSession /\ raw = FALSE /\ exitCode = -1 /\ hist = <<>>
    /\ writes = 0 /\ keys = 0 /\ listeners = 0

\* readPackageJson: exit with code 1 when package.json cannot be read or parsed
ReadPackageJson ==
    /\ pc = "read"
    /\ IF file.readable
       THEN /\ pack' = file.manifest
            /\ pc' = "fetch"
            /\ UNCHANGED exitCode
       ELSE /\ pc' = "exit"
            /\ exitCode' = 1
            /\ UNCHANGED pack
    /\ UNCHANGED <<inp, out, file, orig, registry, config, now, run, bulk, idx, cur, sel, raw,
                   hist, writes, keys, listeners>>

\* updater from the package list to the batched fetch
BulkFetch ==
    /\ pc = "fetch"
    /\ bulk' = getVersionsBatch(packageList(config, pack), registry)
    /\ idx' = 1
    /\ pc' = "loop"
    /\ UNCHANGED <<inp, out, file, orig, registry, config, now, run, pack, cur, sel, raw,
                   exitCode, hist, writes, keys, listeners>>

\* the record of one visited entry
Visit(pos, entry, r) ==
    [pos |-> pos, name |-> entry.name, declared |-> entry.version, value |-> r.value,
     pkg |-> IF r.alias # NULL THEN r.alias ELSE entry.name,
     outcome |-> r.outcome, engaged |-> Len(r.lines) > 1, st |-> r.st,
     wanted |-> r.wanted, status |-> r.lines[Len(r.lines)].status,
     policy |-> r.lines[1].policy]

Assign_WholeGroup(manifest, pos, value) ==
    [manifest EXCEPT ![pos[1]] = [i \in 1..Len(@) |-> [@[i] EXCEPT !.version = value]]]

\* pack[depType][name] = <the value updatePackage returned>
Assign(manifest, pos, value) == [manifest EXCEPT ![pos[1]][pos[2]].version = value]

UpdatePackage_NoAwait ==
    /\ pc \in {"loop", "select"}
    /\ idx <= Len(Positions(config, pack))
    /\ \E pos \in {Positions(config, pack)[idx]} :
       \E entry \in {EntryAt(pack, pos)} :
       \E r \in {updatePackage(entry.name, entry.version,
                               InfoFor(bulk, entry.name, entry.version, registry),
                               config, now)} :
           CASE r.kind = "return" ->
                  /\ pack' = Assign(pack, pos, r.value)
                  /\ hist' = Append(hist, Visit(pos, entry, r))
                  /\ idx' = idx + 1
                  /\ UNCHANGED <<pc, cur, sel, raw, exitCode, listeners>>
             [] r.kind = "throw" ->
                  /\ pc' = "crash"
                  /\ exitCode' = 1
                  /\ UNCHANGED <<pack, hist, idx, cur, sel, raw, listeners>>
             [] OTHER ->
                  /\ pc' = "select"
                  /\ cur' = r
                  /\ sel' = select(r.options, r.wanted)
                  /\ raw' = TRUE
                  /\ listeners' = listeners + 1
                  /\ idx' = idx + 1
                  /\ UNCHANGED <<pack, hist, exitCode>>
    /\ UNCHANGED <<inp, out, file, orig, registry, config, now, run, bulk, writes, keys>>

\* one iteration of the loops of updater: updatePackage up to its return, its throw
\* (an unhandled rejection of updater, which ends the process) or its await of select
UpdatePackage ==
    /\ pc = "loop"
    /\ idx <= Len(Positions(config, pack))
    /\ \E pos \in {Positions(config, pack)[idx]} :
       \E entry \in {EntryAt(pack, pos)} :
       \E r \in {updatePackage(entry.name, entry.version,
                               InfoFor(bulk, entry.name, entry.version, registry),
                               config, now)} :
           CASE r.kind = "return" ->
                  /\ pack' = Assign(pack, pos, r.value)
                  /\ hist' = Append(hist, Visit(pos, entry, r))
                  /\ idx' = idx + 1
                  /\ UNCHANGED <<pc, cur, sel, raw, exitCode, listeners>>
             [] r.kind = "throw" ->
                  /\ pc' = "crash"
                  /\ exitCode' = 1
                  /\ UNCHANGED <<pack, hist, idx, cur, sel, raw, listeners>>
             [] OTHER ->
                  /\ pc' = "select"
                  /\ cur' = r
                  /\ sel' = select(r.options, r.wanted)
                  /\ raw' = TRUE
                  /\ listeners' = listeners + 1
                  /\ UNCHANGED <<pack, hist, idx, exitCode>>
    /\ UNCHANGED <<inp, out, file, orig, registry, config, now, run, bulk, writes, keys>>

OnInterrupt_KeepRaw ==
    /\ pc = "select"
    /\ sel.listening
    /\ pc' = "exit"
    /\ exitCode' = 1
    /\ UNCHANGED <<inp, out, file, orig, registry, config, now, run, pack, bulk, idx, cur,
                   sel, raw, hist, writes, keys, listeners>>

\* onData(CTRL_C): disableRaw and process.exit(1)
OnInterrupt ==
    /\ pc = "select"
    /\ sel.listening
    /\ raw' = FALSE
    /\ pc' = "exit"
    /\ exitCode' = 1
    /\ UNCHANGED <<inp, out, file, orig, registry, config, now, run, pack, bulk, idx, cur,
                   sel, hist, writes, keys, listeners>>

\* onData(ch) for Enter and for a typed chunk: a commit removes the listener and
\* disables raw mode before it resolves the promise of select
OnData(ch) ==
    /\ pc = "select"
    /\ sel.listening
    /\ ch \in ENTER \/ keys < MaxKeys
    /\ \E d \in {onData(sel, ch)} :
           /\ sel' = d.session
           /\ raw' = IF d.resolved THEN FALSE ELSE raw
           /\ pc' = IF d.resolved THEN "selected" ELSE pc
           /\ cur' = IF d.resolved THEN [cur EXCEPT !.value = d.value] ELSE cur
           /\ listeners' = IF d.resolved THEN listeners - 1 ELSE listeners
    /\ keys' = IF ch \in ENTER THEN keys ELSE keys + 1
    /\ UNCHANGED <<inp, out, file, orig, registry, config, now, run, pack, bulk, idx,
                   exitCode, hist, writes>>

UpdatePackageSelected_WriteEach ==
    /\ pc = "selected"
    /\ \E pos \in {Positions(config, pack)[idx]} :
       \E entry \in {EntryAt(pack, pos)} :
       \E r \in {updatePackageSelected(cur, entry.name, entry.version, cur.value)} :
           /\ pack' = Assign(pack, pos, r.value)
           /\ file' = [file EXCEPT !.manifest = Assign(pack, pos, r.value)]
           /\ hist' = Append(hist, Visit(pos, entry, r))
    /\ idx' = idx + 1
    /\ pc' = "loop"
    /\ cur' = NoCall
    /\ sel' = NoSession
    /\ UNCHANGED <<inp, out, orig, registry, config, now, run, bulk, raw, exitCode,
                   writes, keys, listeners>>

\* updatePackage from the resolved promise of select to its return
UpdatePackageSelected ==
    /\ pc = "selected"
    /\ \E pos \in {Positions(config, pack)[idx]} :
       \E entry \in {EntryAt(pack, pos)} :
       \E r \in {updatePackageSelected(cur, entry.name, entry.version, cur.value)} :
           /\ pack' = Assign(pack, pos, r.value)
           /\ hist' = Append(hist, Visit(pos, entry, r))
    /\ idx' = idx + 1
    /\ pc' = "loop"
    /\ cur' = NoCall
    /\ sel' = NoSession
    /\ UNCHANGED <<inp, out, file, orig, registry, config, now, run, bulk, raw, exitCode,
                   writes, keys, listeners>>

\* the writeFileSync that ends updater, after the loops
WriteManifest ==
    /\ pc = "loop"
    /\ idx > Len(Positions(config, pack))
    /\ file' = [file EXCEPT !.manifest = pack]
    /\ writes' = writes + 1
    /\ pc' = "done"
    /\ UNCHANGED <<inp, out, orig, registry, config, now, run, pack, bulk, idx, cur, sel, raw,
                   exitCode, hist, keys, listeners>>

\* nus is started once more, with the same registry, configuration and now
RunAgain ==
    /\ pc = "done"
    /\ run = 1
    /\ run' = 2
    /\ pc' = "read"
    /\ orig' = file
    /\ pack' = <<>> /\ bulk' = <<>> /\ idx' = 0 /\ hist' = <<>> /\ listeners' = 0
    /\ UNCHANGED <<inp, out, file, registry, config, now, cur, sel, raw, exitCode,
                   writes, keys>>

Next ==
    \/ ReadPackageJson
    \/ BulkFetch
    \/ UpdatePackage
    \/ OnInterrupt
    \/ \E ch \in ENTER \cup TypedKeys : OnData(ch)
    \/ UpdatePackageSelected
    \/ WriteManifest
    \/ RunAgain

Spec == Init /\ [][Next]_vars

(***************************************************************************)
(* Properties of the runs                                                  *)
(***************************************************************************)

\* the records of the entries visited in this run
Visited == { hist[i] : i \in 1..Len(hist) }

\* the positions of all the entries of a manifest, of every dependency group
AllPositions(manifest) ==
    UNION { { <<d, i>> : i \in 1..Len(manifest[d]) } : d \in DOMAIN manifest }

\* this run of nus has written package.json and ended
Written == pc = "done" /\ writes = run

\* the selector session of this run was interrupted by Ctrl-C
Interrupted == pc = "exit" /\ sel.listening

\* the registry has v with a release time no later than now - minAge
AgeEligibleAt(pkg, v) ==
    /\ pkg \in DOMAIN registry
    /\ TimeOf(registry[pkg].time, v) # NoTime
    /\ TimeOf(registry[pkg].time, v) <= now - config.minAge * MsPerMinute

\* C3: with a minimum age configured, every entry of the written manifest whose
\* value a run changed holds a version that is age-eligible, whatever was typed in
\* the selector
C3_WrittenVersionsAgeEligible ==
    (Written /\ config.minAge > 0) =>
        \A h \in Visited :
            (h.outcome = "resolved" /\ h.value # h.declared) => AgeEligibleAt(h.pkg, h.wanted)

\* C5: after a Ctrl-C in a selector session the process has a non-zero exit code
\* and package.json is as it was when the run started, whatever was resolved or
\* selected before: this run has written nothing
C5_InterruptWritesNothing ==
    Interrupted => (exitCode > 0 /\ file = orig /\ writes = run - 1)

\* a run that was interrupted after an earlier entry got a new value
C5_Witness ==
    /\ Interrupted
    /\ \E h \in Visited : h.value # h.declared
    /\ exitCode = 1 /\ file = orig

\* C6: raw mode is on exactly while a selector session waits for input: it is off
\* between packages, at the write of the manifest and at the exit of the process,
\* and on from the start of select
C6_RawOnlyWhileSelecting == raw <=> (pc = "select" /\ sel.listening)

\* a session that was committed by Enter after raw mode had been on
C6_Witness == pc = "selected" /\ ~sel.listening /\ ~raw /\ cur.kind = "ask"

\* C7: a run that is not interrupted visits every entry of every enabled group and
\* writes the manifest at its end, whatever entries fail
C7_FailuresIsolatedAsStated ==
    (pc \in {"done", "crash"}) =>
        (Len(hist) = Len(Positions(config, pack)) /\ writes = run)

\* the outcomes of updatePackage that are failed decisions
FailedOutcomes == {"requesterror", "failed"}

\* C8: in the written manifest an entry whose decision failed holds its declared
\* version, and an entry differs from what the run started with only if its own
\* decision did not fail
C8_FailedKeepsDeclared ==
    Written =>
        /\ \A h \in Visited :
               h.outcome \in FailedOutcomes =>
                   /\ EntryAt(file.manifest, h.pos).version = h.declared
                   /\ EntryAt(orig.manifest, h.pos).version = h.declared
        /\ \A q \in AllPositions(file.manifest) :
               EntryAt(file.manifest, q) # EntryAt(orig.manifest, q) =>
                   \E h \in Visited : h.pos = q /\ h.outcome \notin FailedOutcomes

\* a written manifest in which one entry failed and another has a new value
C8_Witness ==
    /\ Written
    /\ \E h \in Visited : h.outcome \in FailedOutcomes
    /\ \E q \in AllPositions(file.manifest) :
           EntryAt(file.manifest, q) # EntryAt(orig.manifest, q)

\* C9: the second run without selector leaves the manifest of the first run as it
\* is, classifies no resolved package as Semi or Latest and prints no "> " line
C9_SecondRunIdempotentAsStated ==
    (Written /\ run = 2 /\ config.ask = "none") =>
        /\ file = orig
        /\ \A h \in Visited :
               h.outcome = "resolved" => (~h.st.semi /\ ~h.st.latest /\ h.status # "> ")

\* C13: at most one selector session is open, with one "data" listener, and it is
\* the session of the entry the loop is at; the entries finished so far are the
\* first ones in the order of the manifest, group after group, so that no entry
\* is begun before the session of the entry before it has committed
C13_OneSessionInOrder ==
    /\ listeners \in {0, 1}
    /\ (listeners = 1) <=> (sel.listening /\ pc \in {"select", "exit"})
    /\ pc \in {"loop", "select", "selected"} => Len(hist) = idx - 1
    /\ pc \in {"select", "selected"} =>
          /\ idx <= Len(Positions(config, pack))
          /\ cur.kind = "ask"
          /\ sel.options = cur.options
    /\ \A i \in 1..Len(hist) : hist[i].pos = Positions(config, orig.manifest)[i]

\* C13 witness: the selector was engaged for the first and for the second entry of
\* a run, and the second session is open
C13_Witness ==
    /\ pc = "select"
    /\ sel.listening
    /\ listeners = 1
    /\ Len(hist) = 1
    /\ hist[1].engaged

\* the catalog of a package as the registry answers a single query for it
CatalogOf(pkg) == IF pkg \in DOMAIN registry THEN registry[pkg] ELSE NoInfo

\* C20: every registry entry was resolved against the catalog of its name, and
\* every aliased entry against the catalog of its alias target, also when the
\* answer came from the batched query
C20_CatalogOfTargetAsStated ==
    \A h \in Visited :
        findVersionType(h.name, h.declared).verType \in {"semver", "alias"} =>
            /\ h.pkg = IF StartsWith(h.declared, sNpmColon)
                       THEN BeforeLastAt(h.declared) ELSE h.name
            /\ InfoFor(bulk, h.name, h.declared, registry) = CatalogOf(h.pkg)

(***************************************************************************)
(* SpecSelect: one session of select, for lists of options and typed input *)
(***************************************************************************)

\* the lists of options of the sessions: versions with a pre-release tag, one of
\* them in upper case, and no option at all
OptionLists ==
    { <<>>,
      <<<<"1", ".", "2", ".", "x", "-", "b", "e", "t", "a">>, <<"2", ".", "1", ".", "0">>>>,
      <<v100, v100 \o <<"-", "X", "1">>, v110, v200>> }

\* the chunks typed in these sessions: the keys of the runs, the characters 0, 1,
\* x and X, Backspace, Ctrl-Backspace, and a pasted chunk of three characters
SelectKeys ==
    TypedKeys \cup {<<"0">>, <<"1">>, <<"x">>, <<"X">>, BACKSPACE, CTRL_BACKSPACE,
                    <<"1", " ", "0">>}

InitSelect ==
    /\ inp = NoOutput /\ out = NoOutput
    /\ pc = "select"
    /\ \E options \in OptionLists, firstSelection \in {NULL, v110, v200} :
           /\ sel = select(options, firstSelection)
           /\ cur = Result("ask", "resolved", NULL, <<>>, NoDecision, sLatest, NULL,
                           NoStatus, options, NULL)
    /\ raw = TRUE
    /\ listeners = 1
    /\ file = NoFile /\ orig = NoFile /\ registry = <<>> /\ config = <<>> /\ now = 0
    /\ run = 0 /\ pack = <<>> /\ bulk = <<>> /\ idx = 0
    /\ exitCode = -1 /\ hist = <<>> /\ writes = 0 /\ keys = 0

NextSelect ==
    \/ OnInterrupt
    \/ \E ch \in ENTER \cup SelectKeys : OnData(ch)

SpecSelect == InitSelect /\ [][NextSelect]_vars

\* q from its i-th character on is a subsequence of s from its k-th character on,
\* when upper and lower case are the same: some later position of s holds the next
\* character of q, and the rest of q follows it
RECURSIVE SubsequenceFrom(_, _, _, _)
SubsequenceFrom(q, s, i, k) ==
    \/ i > Len(q)
    \/ \E m \in k..Len(s) :
          ToLower(s[m]) = ToLower(q[i]) /\ SubsequenceFrom(q, s, i + 1, m + 1)

IsSubsequence(q, s) == SubsequenceFrom(q, s, 1, 1)

\* C14: in a session that waits for input Enter commits exactly when the list of
\* matches is not empty, with the match at the selected index, which is an option of
\* the session that matches the query; Enter on an empty list changes nothing
C14_EnterCommitsSelected ==
    /\ (pc = "select" /\ sel.listening) =>
          \A ch \in ENTER :
              /\ onData(sel, ch).resolved <=> sel.matches # <<>>
              /\ sel.matches # <<>> =>
                    /\ sel.selectedIndex \in 0..(Len(sel.matches) - 1)
                    /\ onData(sel, ch).value = sel.matches[sel.selectedIndex + 1]
              /\ sel.matches = <<>> => onData(sel, ch).session = sel
    /\ pc = "selected" =>
          /\ ~sel.listening
          /\ cur.value = sel.matches[sel.selectedIndex + 1]
          /\ Includes(sel.options, cur.value)
          /\ IsSubsequence(sel.query, cur.value)

\* C14 witness: a session committed to an option other than the first of a list
\* that a query had narrowed
C14_Witness ==
    /\ pc = "selected"
    /\ sel.query # <<>>
    /\ Len(sel.matches) < Len(sel.options)
    /\ sel.selectedIndex > 0
    /\ cur.value = sel.matches[sel.selectedIndex + 1]

\* C15: the matches of a session are the options that hold the characters of the
\* query as a subsequence, whatever the case, in the order of the options; all the
\* options when the query is empty
C15_FilterIsSubsequence ==
    /\ sel.matches = SelectSeq(sel.options, LAMBDA s : IsSubsequence(sel.query, s))
    /\ sel.query = <<>> => sel.matches = sel.options

\* C15 witness: the query 1X matches 1.2.x-beta and not 2.1.0
C15_Witness ==
    /\ sel.query = <<"1", "X">>
    /\ sel.options = <<<<"1", ".", "2", ".", "x", "-", "b", "e", "t", "a">>,
                       <<"2", ".", "1", ".", "0">>>>
    /\ sel.matches = <<<<"1", ".", "2", ".", "x", "-", "b", "e", "t", "a">>>>

(***************************************************************************)
(* Further properties of updatePackage: the age-eligible versions          *)
(***************************************************************************)

\* the members of a list
Members(seq) == { seq[i] : i \in 1..Len(seq) }

\* the catalog versions released, as far as known, at or before the moment t
ReleasedBy(t) ==
    { v \in CatalogVersions(inp.info) :
        TimeOf(inp.info.time, v) # NoTime /\ TimeOf(inp.info.time, v) <= t }

\* the moments the age rule is looked at: the clock of the run and the moments
\* just before, at and just after the release times of the catalogs
Moments == ClockPool \cup UNION { {t - 1, t, t + 1} : t \in TimePool \ {NoTime} }

\* C27: the age-eligible versions are exactly the catalog versions but created
\* and modified whose release time is known and at most now - minAge, the boundary
\* included; versions of unknown release time are in the full set and not
\* eligible; the eligible versions are among the full set, in its order; with
\* minAge 0 every version released, as far as known, by now is eligible
C27_AgeEligible ==
    out.done =>
        /\ Members(out.av.allVersions) = CatalogVersions(inp.info)
        /\ Members(out.av.allVersions) \cap {sCreated, sModified} = {}
        /\ Members(out.av.allowedVersions) = AgeEligible(inp)
        /\ Members(out.av.allowedVersions) = ReleasedBy(inp.now - inp.minAge * MsPerMinute)
        /\ Members(out.av.allowedVersions) \subseteq Members(out.av.allVersions)
        /\ out.av.allowedVersions
             = SelectSeq(out.av.allVersions, LAMBDA v : v \in AgeEligible(inp))
        /\ \A v \in CatalogVersions(inp.info) :
              TimeOf(inp.info.time, v) = NoTime
                  => Includes(out.av.allVersions, v) /\ ~Includes(out.av.allowedVersions, v)
        /\ \A t \in Moments, m \in MinAgePool :
              Members(versionInfoToAllowedVersions(inp.info.time, m, t).allowedVersions)
                  = ReleasedBy(t - m * MsPerMinute)
        /\ \A t \in Moments :
              Members(versionInfoToAllowedVersions(inp.info.time, 0, t).allowedVersions)
                  = ReleasedBy(t)

\* C27 witness: a catalog with a version released exactly minAge minutes ago, which
\* is eligible, and a version of unknown release time, which is listed only
C27_Witness ==
    /\ out.done
    /\ inp.minAge > 0
    /\ \E v \in Members(out.av.allowedVersions) :
          TimeOf(inp.info.time, v) = inp.now - inp.minAge * MsPerMinute
    /\ \E v \in Members(out.av.allVersions) :
          TimeOf(inp.info.time, v) = NoTime /\ ~Includes(out.av.allowedVersions, v)

(***************************************************************************)
(* Further properties of the runs                                          *)
(***************************************************************************)

\* C21 as stated: the exit code of the process is non-zero only when package.json
\* could not be read or a selector session was interrupted
C21_ExitCodesAsStated ==
    exitCode > 0 => (~file.readable \/ Interrupted)

\* C23: the value of an aliased entry with a resolved decision is "npm:", the alias
\* target of the declared value, "@" and the resolved or selected version; the
\* policy printed for it is the override under the name of the entry, or none,
\* whatever is registered under the name of the alias target
C23_AliasPreserved ==
    \A h \in Visited :
        (StartsWith(h.declared, sNpmColon) /\ h.outcome = "resolved") =>
            /\ h.value = sNpmColon \o BeforeLastAt(h.declared) \o <<"@">> \o h.wanted
            /\ h.pkg = BeforeLastAt(h.declared)
            /\ h.policy = IF h.name \in DOMAIN config.overrides
                          THEN config.overrides[h.name] ELSE NULL

\* C23 witness: an aliased entry got a version chosen in the selector, under the
\* default policy, while an override is registered for its alias target
C23_Witness ==
    \E h \in Visited :
        /\ StartsWith(h.declared, sNpmColon)
        /\ h.outcome = "resolved"
        /\ h.engaged
        /\ h.pkg \in DOMAIN config.overrides
        /\ h.name \notin DOMAIN config.overrides
        /\ h.policy = NULL
        /\ h.value # h.declared

(***************************************************************************)
(* Further properties of the selector sessions                             *)
(***************************************************************************)

\* a step of an open session that changed its query
Refiltered == pc = "select" /\ sel.listening /\ sel'.query # sel.query

\* C24 as stated: after a keystroke that changes the query, when the version that
\* was selected is not in the new list of matches, the selected index is 0
C24_ResetWhenVersionGoneAsStated ==
    [][(/\ Refiltered
        /\ sel.matches # <<>>
        /\ ~Includes(sel'.matches, sel.matches[sel.selectedIndex + 1]))
       => sel'.selectedIndex = 0]_vars

\* C24 amended: after a keystroke that changes the query the selected index is 0
\* when the new list of matches has no entry at the index that was selected, and
\* is that index otherwise, whatever version the new list holds there
C24_ResetWhenIndexGone ==
    [][Refiltered =>
          sel'.selectedIndex = IF sel.selectedIndex < Len(sel'.matches)
                               THEN sel.selectedIndex ELSE 0]_vars

\* C24 witness: the query 00 removed the selected 1.1.0 from a list of four; the
\* index 2 is kept and now selects 2.0.0
C24_Witness ==
    /\ pc = "select"
    /\ sel.query = <<"0", "0">>
    /\ Len(sel.options) = 4
    /\ sel.matches = <<v100, v100 \o <<"-", "X", "1">>, v200>>
    /\ sel.selectedIndex = 2

\* the selected index of the session after the arrow key with the letter c
AfterArrow(c) == onData(sel, ARROW_ESC \o <<c>>).session.selectedIndex

\* C25: the selected index of a session is at least 0 and at most the last index of
\* the matches, 0 when there are none; the arrows A and C add one to it up to the
\* last index, the arrows B and D take one off down to 0, and with no matches the
\* arrows change nothing
C25_IndexInRange ==
    /\ sel.selectedIndex >= 0
    /\ sel.selectedIndex <= (IF Len(sel.matches) > 0 THEN Len(sel.matches) - 1 ELSE 0)
    /\ (pc = "select" /\ sel.listening /\ sel.matches # <<>>) =>
          /\ \A c \in {"A", "C"} :
                AfterArrow(c) = IF sel.selectedIndex = Len(sel.matches) - 1
                                THEN sel.selectedIndex ELSE sel.selectedIndex + 1
          /\ \A c \in {"B", "D"} :
                AfterArrow(c) = IF sel.selectedIndex = 0 THEN 0 ELSE sel.selectedIndex - 1
    /\ (pc = "select" /\ sel.listening /\ sel.matches = <<>>) =>
          \A c \in {"A", "B", "C", "D"} : onData(sel, ARROW_ESC \o <<c>>).session = sel

\* C25 witness: after two keys that left the query empty the last of four options
\* is selected
C25_Witness ==
    /\ pc = "select"
    /\ keys = 2
    /\ sel.query = <<>>
    /\ Len(sel.matches) = 4
    /\ sel.selectedIndex = 3

(***************************************************************************)
(* Further properties of the runs: the sessions updatePackage starts       *)
(***************************************************************************)

\* the session as select starts it for the call that awaits it
Started == select(cur.options, cur.wanted)

\* C26: the session of a package starts with an empty query and with the index of
\* the wanted version in the list of all versions, which holds it; Enter on the
\* session as it starts resolves with the wanted version; a first selection that
\* is not in the list starts the session at index 0
C26_StartsAtWanted ==
    pc = "select" =>
        /\ cur.options # <<>>
        /\ Includes(cur.options, cur.wanted)
        /\ Started.query = <<>>
        /\ Started.matches = cur.options
        /\ Started.selectedIndex = IndexOf(cur.options, cur.wanted) - 1
        /\ \A ch \in ENTER :
              onData(Started, ch).resolved /\ onData(Started, ch).value = cur.wanted
        /\ keys = 0 => sel = Started
        /\ select(cur.options, sNpmColon).selectedIndex = 0

\* C26 witness: a session that has just started on a wanted version that is not the
\* first of the list
C26_Witness ==
    /\ pc = "select"
    /\ keys = 0
    /\ sel.listening
    /\ sel.selectedIndex > 0
    /\ sel.matches[sel.selectedIndex + 1] = cur.wanted

(***************************************************************************)
(* Further properties of the selector sessions: the window of the prompt   *)
(***************************************************************************)

\* the smaller of two numbers
Least(a, b) == IF a < b THEN a ELSE b

\* the entry v as the window shows it when it is the selected one
Bracketed(v) == <<"<">> \o v \o <<">">>

\* window is the slice of list that starts after `start` entries, n entries long,
\* with the entry at index bracketed and no other
SliceWithSelected(window, list, index, start, n) ==
    /\ Len(window) = n
    /\ start >= 0 /\ start + n <= Len(list)
    /\ start <= index /\ index < start + n
    /\ \A k \in 1..n :
          window[k] = IF start + k - 1 = index
                      THEN Bracketed(list[start + k]) ELSE list[start + k]
    /\ Cardinality({ k \in 1..n : window[k][1] = "<" }) = 1
    /\ (index # 0 /\ index # Len(list) - 1) => (n = 3 /\ index = start + 1)

\* C28: for the matches of every session and every index within them, inlineWindow
\* shows min(3, length) contiguous entries with the selected one among them, that
\* one and no other between "<" and ">", in the middle unless it is the first or
\* the last of the list; for no matches the window is empty; the window on the
\* prompt line is the one of the session's matches and index
C28_WindowAroundSelected ==
    /\ inlineWindow(<<>>, 0) = <<>>
    /\ sel.matches = <<>> => sel.inline = <<>>
    /\ sel.matches # <<>> => sel.inline = inlineWindow(sel.matches, sel.selectedIndex)
    /\ \A index \in 0..(Len(sel.matches) - 1) :
          \E start \in 0..Len(sel.matches) :
              SliceWithSelected(inlineWindow(sel.matches, index), sel.matches, index,
                                start, Least(3, Len(sel.matches)))

\* C28 witness: a session with more than three matches and a query typed, the
\* selected entry neither first nor last and shown in the middle of three
C28_Witness ==
    /\ keys > 0
    /\ Len(sel.matches) > 3
    /\ sel.selectedIndex > 0 /\ sel.selectedIndex < Len(sel.matches) - 1
    /\ Len(sel.inline) = 3
    /\ sel.inline[2] = Bracketed(sel.matches[sel.selectedIndex + 1])

(***************************************************************************)
(* Further properties of the selector sessions: the edits of the query     *)
(***************************************************************************)

\* the step is an event handled by a listening session
Handled == pc = "select" /\ sel.listening /\ sel' # sel

\* the query gained one printable character that is not a space
AppendedOne ==
    \E c \in Members(sel'.query) :
        c # " " /\ Printable(<<c>>) /\ sel'.query = Append(sel.query, c)

\* the query lost its last character
RemovedLast ==
    sel.query # <<>> /\ sel'.query = SubSeq(sel.query, 1, Len(sel.query) - 1)

\* C29: after every event a session handles the matches are filter(options, query)
\* for the query as it is then, the options are what they were, and the query is
\* what it was, or that with one printable character other than a space
\* appended, or that without its last character, or empty
C29_QueryEditsAsStated ==
    [][Handled =>
          /\ sel'.options = sel.options
          /\ sel'.matches = filter(sel'.options, sel'.query)
          /\ \/ sel'.query = sel.query
             \/ AppendedOne
             \/ RemovedLast
             \/ sel'.query = <<>>]_vars

(***************************************************************************)
(* Further properties of the runs: the end of a selector session            *)
(***************************************************************************)

\* the step in which a session resolves its promise
Commits == pc = "select" /\ pc' = "selected"

\* C30: a session resolves once: the step that resolves it is taken by its own
\* listening handler and leaves no handler attached and the input out of raw mode;
\* from then on no keystroke is handled until the next session has started, and the
\* session and its result stay as they are until updatePackage takes them; a
\* keystroke is handled only by the one handler of the session that is open, and
\* a handler is attached only by the start of a new session, with an empty query
C30_ResolvesOnce ==
    [][/\ Commits =>
             /\ sel.listening /\ listeners = 1
             /\ ~sel'.listening /\ listeners' = 0 /\ ~raw'
             /\ cur'.value = At(sel.matches, sel.selectedIndex)
       /\ pc = "selected" =>
             /\ keys' = keys
             /\ ~sel'.listening /\ listeners' = 0
             /\ sel' = sel \/ sel' = NoSession
             /\ cur' = cur \/ cur' = NoCall
       /\ keys' # keys => pc = "select" /\ sel.listening /\ listeners = 1
       /\ sel' # sel /\ ~sel.listening =>
             \/ sel' = NoSession
             \/ pc = "loop" /\ pc' = "select" /\ sel'.listening /\ sel'.query = <<>>
                            /\ listeners = 0 /\ listeners' = 1
       /\ listeners' <= 1]_vars

\* C30 witness: the second session of a run has resolved after a keystroke, the
\* first one having resolved before it, and no handler is attached
C30_Witness ==
    /\ pc = "selected"
    /\ ~sel.listening
    /\ listeners = 0
    /\ ~raw
    /\ keys > 0
    /\ Len(hist) = 1
    /\ hist[1].engaged
    /\ sel.query # <<>>
====
